---- MODULE Spec2Model ----
(***************************************************************************)
(* Transport/session multiplexer of open-webSearch (src/src/index.ts).     *)
(*                                                                         *)
(* One McpServer instance (the protocol engine) is shared by a stdio       *)
(* endpoint, the bidirectional endpoints of POST/GET/DELETE /mcp and the   *)
(* legacy endpoints of GET /sse + POST /messages.  The two session tables  *)
(* transports.streamable and transports.sse are plain JavaScript objects.  *)
(*                                                                         *)
(* Node runs every handler on one thread; a handler of this file only      *)
(* awaits promises that settle in microtasks (server.connect, the          *)
(* endpoint's handling of the parsed body), so each route handler is one   *)
(* atomic action.  The engine fixes the transport it will answer through   *)
(* when the request reaches it, so the answer to a request is recorded     *)
(* with the request: where it entered (`to`) and where it leaves (`out`).  *)
(*                                                                         *)
(* Collaborators that index.ts imports and does not define:                *)
(*  - McpServer (the SDK's Protocol) keeps ONE transport: connect() stores *)
(*    the endpoint in that slot, replacing the previous one, a closing     *)
(*    endpoint empties it, and the response to a request is sent through   *)
(*    the slot's transport.  `engine` is that slot.                        *)
(*  - randomUUID() is taken never to return the same value twice in a run  *)
(*    (a collision has probability about 2^-122); `issued` is its history. *)
(*    The specification SpecCollide drops this assumption.                 *)
(*  - express.json() reads each request's body from its socket and calls   *)
(*    the route handler when the body is complete; bodies of requests on   *)
(*    different connections complete in any order (SpecOrder).             *)
(*  - A bidirectional endpoint runs onclose when its close() is called (on *)
(*    DELETE); the end of a client's connection or stream does not call    *)
(*    it.  A legacy endpoint's stream end is the "close" event of the      *)
(*    response object.  SpecEnv adds these events of the environment.      *)
(***************************************************************************)
EXTENDS Integers, Sequences, FiniteSets, TLC

(***************************************************************************)
(* Bounds of the model.                                                    *)
(***************************************************************************)
\* Number of endpoint objects (stdio included) constructed in one run.
MaxEndpoints == 2

\* Number of requests whose body express.json() is reading at one time.
MaxInbox == 2

\* Number of close signals delivered to one endpoint's onclose.
MaxCloseSignals == 2

\* Length, in symbols, of the ALLOWED_SEARCH_ENGINES string.
MaxChars == 3

(***************************************************************************)
(* Values.                                                                 *)
(***************************************************************************)
\* JavaScript `undefined`: an absent header, an absent property, an unset field.
Undefined == "undefined"

\* The empty string, a header or query value that is present but falsy.
EmptyString == ""

\* Values randomUUID() may return, in the order the model draws them.
UuidNames == << "uuid-1", "uuid-2", "uuid-3", "uuid-4", "uuid-5", "uuid-6" >>

Uuids == { UuidNames[i] : i \in 1..MaxEndpoints }

\* Property names every object literal inherits from Object.prototype.
ProtoKeys == { "constructor" }

\* What a lookup of an inherited property yields: a function object that is
\* truthy and has neither handleRequest nor handlePostMessage.
ProtoValue == -1

\* No endpoint (the value of a missing table entry, of an unset engine slot).
NoEndpoint == 0

\* A well-formed id the server never issued.
StrangerIds == { "unknown-id" }

\* What a client can put in the mcp-session-id header or the sessionId query.
SessionIdInputs == { Undefined, EmptyString } \cup Uuids \cup ProtoKeys \cup StrangerIds

\* Request bodies, by JSON-RPC method.
Bodies == { "initialize", "tools/call" }

\* process.env.MODE
Modes == { Undefined, "both", "http", "stdio" }

\* Lines main() writes to the console.
StdioEnabledLine == "STDIO transport enabled"

StdioFailedLine == "Failed to initialize STDIO transport"

HttpRunningLine == "HTTP server running on port"

HttpDisabledLine == "HTTP server disabled, running in STDIO mode only"

\* A string of the configuration is a sequence of symbols: a comma, a
\* blank, or an engine name taken as one symbol.
Comma == ","

Blank == " "

Symbols == { Comma, Blank, "bing", "brave", "google" }

\* The strings of at most n symbols.
Strings(n) == UNION { [ 1..k -> Symbols ] : k \in 0..n }

\* An environment variable: unset, or set to a string.
Unset == [ set |-> FALSE, chars |-> << >> ]

EnvString(chars) == [ set |-> TRUE, chars |-> chars ]

\* The string that is one engine name.
Name(engine) == << engine >>

\* process.env.DEFAULT_SEARCH_ENGINE
DefaultInputs ==
    { Unset, EnvString(<< >>), EnvString(Name("bing")), EnvString(Name("brave")),
      EnvString(Name("google")), EnvString(<< Blank, "bing" >>) }

\* process.env.ALLOWED_SEARCH_ENGINES
AllowedInputs == { Unset } \cup { EnvString(c) : c \in Strings(MaxChars) }

\* The environment when neither variable is set.
UnsetEnv == [ DEFAULT_SEARCH_ENGINE |-> Unset, ALLOWED_SEARCH_ENGINES |-> Unset ]

\* The config object before config.ts has been evaluated.
Unloaded == [ loaded |-> FALSE, defaultSearchEngine |-> << >>, allowedSearchEngines |-> << >> ]

VARIABLES
    mode,        \* process.env.MODE, read once
    uuidRepeats, \* whether randomUUID() may return a value it returned before
    env,         \* process.env: DEFAULT_SEARCH_ENGINE, ALLOWED_SEARCH_ENGINES
    config,      \* the config object of config.ts
    console,     \* the lines main() has logged
    inbox,       \* POST /mcp requests whose body is being read, in arrival order
    pc,          \* position of main(): "start", "http", "serving", "idle"
    ep,          \* the endpoint objects constructed so far, by identity
    streamable,  \* transports.streamable: own keys -> endpoint
    sse,         \* transports.sse: own keys -> endpoint
    engine,      \* the transport the shared McpServer is connected to
    issued,      \* values randomUUID() has returned
    lastResp     \* what the last request was answered

vars == << mode, uuidRepeats, env, config, console, inbox,
          pc, ep, streamable, sse, engine, issued, lastResp >>

\* What no step of main() and no route handler assigns.
fixed == << mode, uuidRepeats, env, config >>

(***************************************************************************)
(* JavaScript helpers.                                                     *)
(***************************************************************************)
\* Truthiness of a string | undefined value (`sessionId &&`, `!sessionId`).
Truthy(v) == v # Undefined /\ v # EmptyString

\* table[key] on an object literal: an own property, else a property
\* inherited from Object.prototype, else undefined.
Get(table, key) ==
    IF key \in DOMAIN table THEN table[key]
    ELSE IF key \in ProtoKeys THEN ProtoValue
    ELSE NoEndpoint

\* table[key] = value
Put(table, key, value) ==
    [ k \in (DOMAIN table) \cup {key} |-> IF k = key THEN value ELSE table[k] ]

\* Mutant of Delete: the property stays.
DeleteNothing(table, key) == table

\* delete table[key]
Delete(table, key) == [ k \in (DOMAIN table) \ {key} |-> table[k] ]

\* Truthiness of a looked-up table value.
Found(v) == v # NoEndpoint

\* The value is an endpoint object, so its handler methods exist.
IsEndpoint(v) == v \in 1..Len(ep)

EmptyTable == [ k \in {} |-> NoEndpoint ]

\* isInitializeRequest(req.body)
isInitializeRequest(body) == body = "initialize"

\* randomUUID(): a value it has not returned before in this run (the set is
\* empty only when the model's supply of names is used up); any value when
\* repeats are admitted.
randomUUID ==
    LET unused == { i \in 1..MaxEndpoints : UuidNames[i] \notin issued }
    IN  IF uuidRepeats THEN Uuids
        ELSE IF unused = {} THEN {}
        ELSE { UuidNames[CHOOSE i \in unused : \A j \in unused : i <= j] }

\* Mutant of enableHttpServer: the listener is started in every mode.
enableHttpServerAlways(m) == TRUE

\* config.enableHttpServer
enableHttpServer(m) == IF m # Undefined THEN m \in { "both", "http" } ELSE TRUE

\* The MODE test that guards the stdio transport.
enableStdio(m) == m = Undefined \/ m = "both" \/ m = "stdio"

(***************************************************************************)
(* config.ts: the search-engine settings.                                  *)
(***************************************************************************)
\* const validSearchEngines = [...]
validSearchEngines ==
    << Name("bing"), Name("duckduckgo"), Name("exa"), Name("brave"),
       Name("baidu"), Name("csdn"), Name("linuxdo"), Name("juejin") >>

\* list.includes(x)
includes(list, x) == \E i \in 1..Len(list) : list[i] = x

\* s.split(','): the pieces between the commas, empty pieces included.
RECURSIVE split(_)
split(s) ==
    LET commas == { i \in 1..Len(s) : s[i] = Comma }
    IN  IF commas = {} THEN << s >>
        ELSE LET i == CHOOSE c \in commas : \A d \in commas : c <= d
             IN  << SubSeq(s, 1, i - 1) >> \o split(SubSeq(s, i + 1, Len(s)))

\* e.trim(): without its leading and trailing blanks.
RECURSIVE trim(_)
trim(s) ==
    IF s # << >> /\ s[1] = Blank THEN trim(Tail(s))
    ELSE IF s # << >> /\ s[Len(s)] = Blank THEN trim(SubSeq(s, 1, Len(s) - 1))
    ELSE s

\* Truthiness of an environment variable (`v || d`, `v ? a : b`).
TruthyEnv(v) == v.set /\ v.chars # << >>

\* The config literal: DEFAULT_SEARCH_ENGINE || 'bing', and the trimmed
\* pieces of ALLOWED_SEARCH_ENGINES or [].
readConfig(e) ==
    [ loaded |-> TRUE,
      defaultSearchEngine |->
          IF TruthyEnv(e.DEFAULT_SEARCH_ENGINE) THEN e.DEFAULT_SEARCH_ENGINE.chars
          ELSE Name("bing"),
      allowedSearchEngines |->
          IF TruthyEnv(e.ALLOWED_SEARCH_ENGINES)
          THEN LET pieces == split(e.ALLOWED_SEARCH_ENGINES.chars)
               IN  [ i \in 1..Len(pieces) |-> trim(pieces[i]) ]
          ELSE << >> ]

\* An invalid default falls back to 'bing'.
validDefault(d) == IF ~includes(validSearchEngines, d) THEN Name("bing") ELSE d

\* list.filter(engine => validSearchEngines.includes(engine))
filterValid(list) == SelectSeq(list, LAMBDA e : includes(validSearchEngines, e))

\* Mutant of defaultInAllowed: the default is kept whatever the list holds.
defaultInAllowedKept(allowed, d) == d

\* A default that is not in the non-empty allowed list becomes its first entry.
defaultInAllowed(allowed, d) == IF ~includes(allowed, d) THEN allowed[1] ELSE d

\* The validation that follows the literal.
validateConfig(c) ==
    LET d == validDefault(c.defaultSearchEngine)
    IN  IF Len(c.allowedSearchEngines) > 0
        THEN LET allowed == filterValid(c.allowedSearchEngines)
             IN  [ c EXCEPT !.allowedSearchEngines = allowed,
                            !.defaultSearchEngine =
                                IF Len(allowed) = 0 THEN d ELSE defaultInAllowed(allowed, d) ]
        ELSE [ c EXCEPT !.defaultSearchEngine = d ]

\* What `config` is once config.ts has been evaluated.
getConfig(e) == validateConfig(readConfig(e))

(***************************************************************************)
(* Endpoints and responses.                                                *)
(***************************************************************************)
\* `gone`: the client's connection has ended; `closes`: how many times the
\* endpoint's close handler has run.
NewEndpoint(kind, id) ==
    [ kind |-> kind, sessionId |-> id, initialized |-> FALSE,
      connected |-> FALSE, closed |-> FALSE, gone |-> FALSE, closes |-> 0 ]

CanConstruct == Len(ep) < MaxEndpoints

\* Answers written by the router itself.
BadRequestEnvelope(route, sid) ==
    [ route |-> route, sid |-> sid, by |-> "router", status |-> 400, code |-> -32000,
      message |-> "Bad Request: No valid session ID provided", to |-> NoEndpoint,
      req |-> FALSE, out |-> NoEndpoint ]

InvalidSession(route, sid) ==
    [ route |-> route, sid |-> sid, by |-> "router", status |-> 400, code |-> 0,
      message |-> "Invalid or missing session ID", to |-> NoEndpoint,
      req |-> FALSE, out |-> NoEndpoint ]

NoTransportFound(route, sid) ==
    [ route |-> route, sid |-> sid, by |-> "router", status |-> 400, code |-> 0,
      message |-> "No transport found for sessionId", to |-> NoEndpoint,
      req |-> FALSE, out |-> NoEndpoint ]

\* The handler threw: the looked-up value has no such method to call.
Thrown(route, sid) ==
    [ route |-> route, sid |-> sid, by |-> "thrown", status |-> 0, code |-> 0,
      message |-> "TypeError: not a function", to |-> NoEndpoint,
      req |-> FALSE, out |-> NoEndpoint ]

\* The request was handed to endpoint t, which answered it (accepted) or
\* refused it with an error status of its own.
Forwarded(route, sid, t, accepted) ==
    [ route |-> route, sid |-> sid, by |-> "endpoint",
      status |-> IF accepted THEN 200 ELSE 406, code |-> 0,
      message |-> IF accepted THEN "accepted" ELSE "refused by endpoint", to |-> t,
      req |-> FALSE, out |-> NoEndpoint ]

\* Endpoint t accepted a JSON-RPC request and passed it to the engine, which
\* sends the response through the transport its slot holds.
Answered(route, sid, t, slot) ==
    [ Forwarded(route, sid, t, TRUE) EXCEPT !.req = TRUE, !.out = slot ]

NoResponse ==
    [ route |-> "", sid |-> Undefined, by |-> "none", status |-> 0, code |-> 0,
      message |-> "", to |-> NoEndpoint,
      req |-> FALSE, out |-> NoEndpoint ]

TypeOK ==
    /\ mode \in Modes
    /\ uuidRepeats \in BOOLEAN
    /\ env.DEFAULT_SEARCH_ENGINE \in DefaultInputs
    /\ env.ALLOWED_SEARCH_ENGINES \in AllowedInputs
    /\ config.loaded \in BOOLEAN
    /\ console \subseteq { StdioEnabledLine, StdioFailedLine, HttpRunningLine, HttpDisabledLine }
    /\ Len(inbox) <= MaxInbox
    /\ pc \in { "import", "start", "http", "serving", "idle" }
    /\ Len(ep) <= MaxEndpoints
    /\ DOMAIN streamable \subseteq Uuids
    /\ DOMAIN sse \subseteq Uuids
    /\ engine \in 0..Len(ep)
    /\ issued \subseteq Uuids

\* Nothing constructed, nothing logged, no request received.
Blank0 ==
    /\ ep = << >>
    /\ streamable = EmptyTable
    /\ sse = EmptyTable
    /\ engine = NoEndpoint
    /\ issued = {}
    /\ lastResp = NoResponse
    /\ console = {}
    /\ inbox = << >>

\* main() is about to run: config.ts has been evaluated on import.
Init ==
    /\ mode \in Modes
    /\ uuidRepeats = FALSE
    /\ env = UnsetEnv
    /\ config = getConfig(env)
    /\ pc = "start"
    /\ Blank0

\* The same, with a random source that may repeat itself.
InitCollide ==
    /\ mode \in Modes
    /\ uuidRepeats = TRUE
    /\ env = UnsetEnv
    /\ config = getConfig(env)
    /\ pc = "start"
    /\ Blank0

\* config.ts is about to be evaluated, under any environment.
InitConfig ==
    /\ mode = Undefined
    /\ uuidRepeats = FALSE
    /\ env \in [ DEFAULT_SEARCH_ENGINE : DefaultInputs, ALLOWED_SEARCH_ENGINES : AllowedInputs ]
    /\ config = Unloaded
    /\ pc = "import"
    /\ Blank0

(***************************************************************************)
(* Import of config.ts.                                                    *)
(***************************************************************************)
LoadConfig ==
    /\ pc = "import"
    /\ config' = getConfig(env)
    /\ pc' = "start"
    /\ UNCHANGED << mode, uuidRepeats, env, console, inbox,
                    ep, streamable, sse, engine, issued, lastResp >>

(***************************************************************************)
(* main(): bootstrap.                                                      *)
(***************************************************************************)
\* server.connect(transport): the engine's single transport slot now holds
\* this endpoint, whatever it held before.
Connect(t) == t

\* MODE enables stdio: construct the stdio endpoint and connect it; a failed
\* connect is caught and logged.
\* Mutant of afterStdio: the rejection leaves main(), which ends there.
afterStdioFatal(ok) == IF ok THEN "http" ELSE "idle"

\* Where main() goes on after the stdio connect settled: .then and .catch
\* both return, so the await resumes.
afterStdio(ok) == "http"

StartStdio(ok) ==
    /\ pc = "start"
    /\ enableStdio(mode)
    /\ ep' = Append(ep, [ NewEndpoint("stdio", Undefined) EXCEPT !.connected = ok ])
    /\ engine' = Connect(Len(ep) + 1)
    /\ console' = console \cup { IF ok THEN StdioEnabledLine ELSE StdioFailedLine }
    /\ pc' = afterStdio(ok)
    /\ UNCHANGED << fixed, inbox, streamable, sse, issued, lastResp >>

SkipStdio ==
    /\ pc = "start"
    /\ ~enableStdio(mode)
    /\ pc' = "http"
    /\ UNCHANGED << fixed, console, inbox, ep, streamable, sse, engine, issued, lastResp >>

\* config.enableHttpServer: mount the routes and listen.
Listen ==
    /\ pc = "http"
    /\ enableHttpServer(mode)
    /\ console' = console \cup { HttpRunningLine }
    /\ pc' = "serving"
    /\ UNCHANGED << fixed, inbox, ep, streamable, sse, engine, issued, lastResp >>

StdioOnly ==
    /\ pc = "http"
    /\ ~enableHttpServer(mode)
    /\ console' = console \cup { HttpDisabledLine }
    /\ pc' = "idle"
    /\ UNCHANGED << fixed, inbox, ep, streamable, sse, engine, issued, lastResp >>

(***************************************************************************)
(* Standard input.                                                         *)
(***************************************************************************)
\* A request line arrives on standard input and is passed to the engine.
StdioRequest(t) ==
    /\ pc # "start"
    /\ t \in 1..Len(ep)
    /\ ep[t].kind = "stdio"
    /\ ep[t].connected
    /\ lastResp' = Answered("stdin", Undefined, t, engine)
    /\ UNCHANGED << fixed, console, inbox, pc, ep, streamable, sse, engine, issued >>

(***************************************************************************)
(* POST /mcp                                                               *)
(***************************************************************************)
\* transports.streamable[sessionId]
streamableTransport(sessionId) == Get(streamable, sessionId)

\* Mutant of sseTransport: one table for both families.
sseTransportAnyTable(sessionId) ==
    IF sessionId \in DOMAIN sse THEN sse[sessionId] ELSE Get(streamable, sessionId)

\* transports.sse[sessionId]
sseTransport(sessionId) == Get(sse, sessionId)

\* Mutant of PostBranch: a request without a session id opens a session
\* whatever its body is.
PostBranchAnyBody(sessionId, body) ==
    IF Truthy(sessionId) /\ Found(streamableTransport(sessionId)) THEN "reuse"
    ELSE IF ~Truthy(sessionId) THEN "new"
    ELSE "invalid"

\* The three branches of the handler.
PostBranch(sessionId, body) ==
    IF Truthy(sessionId) /\ Found(streamableTransport(sessionId)) THEN "reuse"
    ELSE IF ~Truthy(sessionId) /\ isInitializeRequest(body) THEN "new"
    ELSE "invalid"

\* Mutant of sessionIdGenerator: one value, drawn once, for every session.
sessionIdGeneratorFixed == { UuidNames[1] }

\* sessionIdGenerator: () => randomUUID()
sessionIdGenerator == randomUUID

\* Mutant of onsessioninitialized: `transport` is one variable shared by all
\* requests, so every entry ends up naming the latest endpoint.
onsessioninitializedShared(id, t) ==
    [ k \in (DOMAIN streamable) \cup {id} |-> t ]

\* onsessioninitialized: (sessionId) => { transports.streamable[sessionId] = transport }
onsessioninitialized(id, t) == Put(streamable, id, t)

\* Mutant of onclose: the whole table is dropped.
oncloseClearsTable(t) == EmptyTable

\* Mutant of onclose: the entry is left in the table.
oncloseKeepsEntry(t) == streamable

\* Mutant of onclose: when the endpoint's own entry is gone, another entry
\* is deleted in its place.
oncloseOrOther(t) ==
    IF ~Truthy(ep[t].sessionId) \/ DOMAIN streamable = {} THEN streamable
    ELSE IF ep[t].sessionId \in DOMAIN streamable THEN Delete(streamable, ep[t].sessionId)
    ELSE Delete(streamable, CHOOSE k \in DOMAIN streamable : TRUE)

\* transport.onclose: if (transport.sessionId) delete transports.streamable[transport.sessionId]
onclose(t) ==
    IF Truthy(ep[t].sessionId) THEN Delete(streamable, ep[t].sessionId) ELSE streamable

\* What the endpoint can do with a POST: it refuses an initialize when
\* already initialized and anything else when not yet initialized.
Acceptable(e, body) == isInitializeRequest(body) <=> ~e.initialized

\* New session: construct the endpoint, set onclose, connect it to the
\* shared server, and hand it the initialize request.  When the endpoint
\* accepts, it draws its id, runs onsessioninitialized and passes the
\* request on; when it refuses, it stays connected and unregistered.
PostMcpNew(sessionId, body, accepted) ==
    /\ pc = "serving"
    /\ PostBranch(sessionId, body) = "new"
    /\ CanConstruct
    /\ LET t == Len(ep) + 1
           e == [ NewEndpoint("streamable", Undefined) EXCEPT !.connected = TRUE ]
       IN  /\ engine' = Connect(t)
           /\ IF accepted /\ Acceptable(e, body)
              THEN \E uuid \in sessionIdGenerator :
                     /\ ep' = Append(ep, [ e EXCEPT !.sessionId = uuid, !.initialized = TRUE ])
                     /\ issued' = issued \cup {uuid}
                     /\ streamable' = onsessioninitialized(uuid, t)
                     /\ lastResp' = Answered("POST /mcp", sessionId, t, engine')
              ELSE /\ ep' = Append(ep, e)
                   /\ lastResp' = Forwarded("POST /mcp", sessionId, t, FALSE)
                   /\ UNCHANGED << issued, streamable >>
    /\ UNCHANGED << fixed, console, pc, sse >>

\* Known session: forward to the endpoint found in the table.
PostMcpReuse(sessionId, body, accepted) ==
    /\ pc = "serving"
    /\ PostBranch(sessionId, body) = "reuse"
    /\ LET t == streamableTransport(sessionId)
       IN  IF IsEndpoint(t)
           THEN /\ accepted => Acceptable(ep[t], body)
                /\ lastResp' = IF accepted
                               THEN Answered("POST /mcp", sessionId, t, engine)
                               ELSE Forwarded("POST /mcp", sessionId, t, FALSE)
           ELSE lastResp' = Thrown("POST /mcp", sessionId)
    /\ UNCHANGED << fixed, console, pc, ep, streamable, sse, engine, issued >>

\* Neither: the 400 envelope.
PostMcpInvalid(sessionId, body) ==
    /\ pc = "serving"
    /\ PostBranch(sessionId, body) = "invalid"
    /\ lastResp' = BadRequestEnvelope("POST /mcp", sessionId)
    /\ UNCHANGED << fixed, console, pc, ep, streamable, sse, engine, issued >>

\* app.post('/mcp', ...)
PostMcp(sessionId, body, accepted) ==
    \/ PostMcpNew(sessionId, body, accepted)
    \/ PostMcpReuse(sessionId, body, accepted)
    \/ PostMcpInvalid(sessionId, body)

(***************************************************************************)
(* GET /mcp and DELETE /mcp                                                *)
(***************************************************************************)
\* The guard of handleSessionRequest.
SessionMissing(sessionId) ==
    ~Truthy(sessionId) \/ ~Found(streamableTransport(sessionId))

handleSessionRequestInvalid(route, sessionId) ==
    /\ pc = "serving"
    /\ SessionMissing(sessionId)
    /\ lastResp' = InvalidSession(route, sessionId)
    /\ UNCHANGED << fixed, console, inbox, pc, ep, streamable, sse, engine, issued >>

\* GET: the endpoint opens (or refuses) its notification stream.
GetMcpForward(sessionId, accepted) ==
    /\ pc = "serving"
    /\ ~SessionMissing(sessionId)
    /\ LET t == streamableTransport(sessionId)
       IN  lastResp' = IF IsEndpoint(t)
                       THEN Forwarded("GET /mcp", sessionId, t, accepted)
                       ELSE Thrown("GET /mcp", sessionId)
    /\ UNCHANGED << fixed, console, inbox, pc, ep, streamable, sse, engine, issued >>

\* DELETE: an endpoint that accepts closes itself, which runs onclose and
\* then empties the engine's transport slot.
DeleteMcpForward(sessionId, accepted) ==
    /\ pc = "serving"
    /\ ~SessionMissing(sessionId)
    /\ LET t == streamableTransport(sessionId)
       IN  IF IsEndpoint(t) /\ accepted
           THEN /\ ep' = [ ep EXCEPT ![t].closed = TRUE, ![t].closes = 1 ]
                /\ streamable' = onclose(t)
                /\ engine' = NoEndpoint
                /\ lastResp' = Forwarded("DELETE /mcp", sessionId, t, TRUE)
           ELSE /\ lastResp' = IF IsEndpoint(t)
                               THEN Forwarded("DELETE /mcp", sessionId, t, FALSE)
                               ELSE Thrown("DELETE /mcp", sessionId)
                /\ UNCHANGED << ep, streamable, engine >>
    /\ UNCHANGED << fixed, console, inbox, pc, sse, issued >>

\* app.get('/mcp', handleSessionRequest)
GetMcp(sessionId, accepted) ==
    \/ handleSessionRequestInvalid("GET /mcp", sessionId)
    \/ GetMcpForward(sessionId, accepted)

\* app.delete('/mcp', handleSessionRequest)
DeleteMcp(sessionId, accepted) ==
    \/ handleSessionRequestInvalid("DELETE /mcp", sessionId)
    \/ DeleteMcpForward(sessionId, accepted)

(***************************************************************************)
(* GET /sse and POST /messages                                             *)
(***************************************************************************)
\* The endpoint draws its id when constructed; it is registered, its close
\* handler is set, and it is connected to the shared server.
SseGet ==
    /\ pc = "serving"
    /\ CanConstruct
    /\ \E uuid \in randomUUID :
         LET t == Len(ep) + 1
         IN  /\ ep' = Append(ep, [ NewEndpoint("sse", uuid) EXCEPT !.connected = TRUE ])
             /\ issued' = issued \cup {uuid}
             /\ sse' = Put(sse, uuid, t)
             /\ engine' = Connect(t)
             /\ lastResp' = Forwarded("GET /sse", Undefined, t, TRUE)
    /\ UNCHANGED << fixed, console, inbox, pc, streamable >>

\* Mutant of sseOnClose: the entry is left in the table.
sseOnCloseKeepsEntry(t) == sse

\* () => { delete transports.sse[transport.sessionId] }
sseOnClose(t) == Delete(sse, ep[t].sessionId)

\* res.on("close"): the client's event stream ended.
SseClose(t) ==
    /\ t \in 1..Len(ep)
    /\ ep[t].kind = "sse"
    /\ ~ep[t].closed
    /\ ep' = [ ep EXCEPT ![t].closed = TRUE, ![t].gone = TRUE, ![t].closes = 1 ]
    /\ sse' = sseOnClose(t)
    /\ engine' = NoEndpoint
    /\ UNCHANGED << fixed, console, inbox, pc, streamable, issued, lastResp >>

\* app.post('/messages', ...)
PostMessages(sessionId, body, accepted) ==
    /\ pc = "serving"
    /\ LET t == sseTransport(sessionId)
       IN  IF Found(t)
           THEN IF IsEndpoint(t)
                THEN /\ ep' = IF accepted /\ isInitializeRequest(body)
                              THEN [ ep EXCEPT ![t].initialized = TRUE ] ELSE ep
                     /\ lastResp' = IF accepted
                                    THEN Answered("POST /messages", sessionId, t, engine)
                                    ELSE Forwarded("POST /messages", sessionId, t, FALSE)
                ELSE /\ lastResp' = Thrown("POST /messages", sessionId)
                     /\ UNCHANGED ep
           ELSE /\ lastResp' = NoTransportFound("POST /messages", sessionId)
                /\ UNCHANGED ep
    /\ UNCHANGED << fixed, console, inbox, pc, streamable, sse, engine, issued >>

(***************************************************************************)
(* Events of the environment.                                              *)
(***************************************************************************)
\* The connection (or the notification stream) of a registered
\* bidirectional session's client ends.  The /mcp routes set no listener
\* for it and the endpoint does not run onclose: nothing is cleaned up.
ConnectionDrop(t) ==
    /\ pc = "serving"
    /\ t \in 1..Len(ep)
    /\ ep[t].kind = "streamable"
    /\ ~ep[t].closed
    /\ ~ep[t].gone
    /\ streamableTransport(ep[t].sessionId) = t
    /\ ep' = [ ep EXCEPT ![t].gone = TRUE ]
    /\ UNCHANGED << fixed, console, inbox, pc, streamable, sse, engine, issued, lastResp >>

\* close() is called once more on a bidirectional endpoint that is already
\* closed: onclose runs again, and the engine clears its slot again.
OncloseAgain(t) ==
    /\ t \in 1..Len(ep)
    /\ ep[t].kind = "streamable"
    /\ ep[t].closed
    /\ ep[t].closes < MaxCloseSignals
    /\ ep' = [ ep EXCEPT ![t].closes = @ + 1 ]
    /\ streamable' = onclose(t)
    /\ engine' = NoEndpoint
    /\ UNCHANGED << fixed, console, inbox, pc, sse, issued, lastResp >>

(***************************************************************************)
(* express.json(): the body of a POST /mcp is read before the handler.     *)
(***************************************************************************)
\* The lowest tag no request of the inbox carries.
FreeTag == CHOOSE n \in 1..MaxInbox + 1 :
               /\ \A i \in 1..Len(inbox) : inbox[i].n # n
               /\ \A m \in 1..n - 1 : \E i \in 1..Len(inbox) : inbox[i].n = m

\* The sequence without its i-th element.
Remove(seq, i) == SubSeq(seq, 1, i - 1) \o SubSeq(seq, i + 1, Len(seq))

\* A POST /mcp arrives: its headers are in, express.json() starts reading
\* its body.
Arrive(sessionId, body) ==
    /\ pc = "serving"
    /\ Len(inbox) < MaxInbox
    /\ inbox' = Append(inbox, [ n |-> FreeTag, sid |-> sessionId, body |-> body ])
    /\ UNCHANGED << fixed, console, pc, ep, streamable, sse, engine, issued, lastResp >>

\* The body of the i-th request in arrival order is complete: express.json()
\* calls the route handler with it.
DispatchAt(i, accepted) ==
    /\ i \in 1..Len(inbox)
    /\ inbox' = Remove(inbox, i)
    /\ PostMcp(inbox[i].sid, inbox[i].body, accepted)

\* main(), from its first statement to the listener.
Main ==
    \/ \E ok \in BOOLEAN : StartStdio(ok)
    \/ SkipStdio
    \/ Listen
    \/ StdioOnly

Next ==
    \/ \E ok \in BOOLEAN : StartStdio(ok)
    \/ SkipStdio
    \/ Listen
    \/ StdioOnly
    \/ \E t \in 1..MaxEndpoints : StdioRequest(t)
    \/ \E s \in SessionIdInputs, b \in Bodies, a \in BOOLEAN :
          PostMcpNew(s, b, a) /\ UNCHANGED inbox
    \/ \E s \in SessionIdInputs, b \in Bodies, a \in BOOLEAN :
          PostMcpReuse(s, b, a) /\ UNCHANGED inbox
    \/ \E s \in SessionIdInputs, b \in Bodies :
          PostMcpInvalid(s, b) /\ UNCHANGED inbox
    \/ \E s \in SessionIdInputs, a \in BOOLEAN : GetMcp(s, a)
    \/ \E s \in SessionIdInputs, a \in BOOLEAN : DeleteMcp(s, a)
    \/ SseGet
    \/ \E t \in 1..MaxEndpoints : SseClose(t)
    \/ \E s \in SessionIdInputs, b \in Bodies, a \in BOOLEAN : PostMessages(s, b, a)

Spec == Init /\ [][Next]_vars

\* main() runs to its end: each of its awaits resumes.
SpecFair == Spec /\ WF_vars(Main)

\* With the events of the environment.
NextEnv ==
    \/ Next
    \/ \E t \in 1..MaxEndpoints : ConnectionDrop(t)
    \/ \E t \in 1..MaxEndpoints : OncloseAgain(t)

SpecEnv == Init /\ [][NextEnv]_vars /\ WF_vars(Main)

\* With a random source that may repeat itself.
SpecCollide == InitCollide /\ [][Next]_vars

\* Every POST /mcp passes through express.json().
NextOrder ==
    \/ Main
    \/ \E s \in SessionIdInputs, b \in Bodies : Arrive(s, b)
    \/ \E i \in 1..MaxInbox, a \in BOOLEAN : DispatchAt(i, a)

SpecOrder == Init /\ [][NextOrder]_vars

\* The evaluation of config.ts under every environment.
SpecConfig == InitConfig /\ [][LoadConfig]_vars

(***************************************************************************)
(* Properties.                                                             *)
(***************************************************************************)
\* The bidirectional endpoint that drew id s has been closed by a DELETE.
Deleted(s) ==
    \E t \in 1..Len(ep) :
        ep[t].kind = "streamable" /\ ep[t].closed /\ ep[t].sessionId = s

\* The answer is a rejection written by the router: status 400, nothing forwarded.
Rejected400(r) == r.by = "router" /\ r.status = 400 /\ r.to = NoEndpoint

\* C1: once a DELETE /mcp carrying session id s has succeeded, every later
\* POST, GET or DELETE on /mcp carrying s is answered 400 by the router and
\* reaches no endpoint.
C1_RejectedAfterDelete ==
    [][ \A s \in Uuids : Deleted(s) =>
          \A b \in Bodies, a \in BOOLEAN :
              (PostMcp(s, b, a) \/ GetMcp(s, a) \/ DeleteMcp(s, a)) =>
                  /\ Rejected400(lastResp')
                  /\ lastResp'.sid = s
                  /\ UNCHANGED << ep, streamable, sse, engine >> ]_vars

\* C1 witness: a request carrying the id of a deleted session was rejected.
C1_Witness ==
    \E s \in Uuids :
        /\ Deleted(s)
        /\ lastResp.sid = s
        /\ lastResp.route \in { "POST /mcp", "GET /mcp", "DELETE /mcp" }
        /\ Rejected400(lastResp)

\* C2: a POST /mcp without a session id whose body is not an initialize
\* request gets the 400 / -32000 envelope; no endpoint is constructed,
\* nothing is connected to the engine, both tables stay as they were.
C2_NoIdNotInitialize ==
    [][ \A b \in Bodies, a \in BOOLEAN :
          (~isInitializeRequest(b) /\ PostMcp(Undefined, b, a)) =>
              /\ lastResp' = BadRequestEnvelope("POST /mcp", Undefined)
              /\ UNCHANGED << ep, engine, streamable, sse >> ]_vars

\* C2 witness: such a POST was answered with the envelope.
C2_Witness ==
    /\ lastResp = BadRequestEnvelope("POST /mcp", Undefined)
    /\ lastResp.status = 400
    /\ lastResp.code = -32000

\* C3 (as claimed): a POST /mcp carrying a non-empty session id that is not
\* a key of the bidirectional table gets the 400 / -32000 envelope whatever
\* its body is, and creates or revives no session.
C3_UnknownIdRejected ==
    [][ \A s \in SessionIdInputs, b \in Bodies, a \in BOOLEAN :
          (Truthy(s) /\ s \notin DOMAIN streamable /\ PostMcp(s, b, a)) =>
              /\ lastResp' = BadRequestEnvelope("POST /mcp", s)
              /\ UNCHANGED << ep, engine, streamable, sse >> ]_vars

\* C4 (as claimed): a GET or DELETE on /mcp whose session id is absent or is
\* not a key of the bidirectional table gets 400 "Invalid or missing session
\* ID", reaches no endpoint and leaves both tables as they were.
C4_MissingIdRejected ==
    [][ \A s \in SessionIdInputs, a \in BOOLEAN :
          /\ (s \notin DOMAIN streamable /\ GetMcp(s, a)) =>
                /\ lastResp' = InvalidSession("GET /mcp", s)
                /\ UNCHANGED << ep, engine, streamable, sse >>
          /\ (s \notin DOMAIN streamable /\ DeleteMcp(s, a)) =>
                /\ lastResp' = InvalidSession("DELETE /mcp", s)
                /\ UNCHANGED << ep, engine, streamable, sse >> ]_vars

\* C5 (as claimed): the response to a request that entered through an
\* endpoint goes out through that same endpoint.
C5_ResponseThroughSameEndpoint ==
    lastResp.req => lastResp.out = lastResp.to

\* C6: a POST /mcp carrying a session id that is a key of the bidirectional
\* table is handed to the endpoint that drew this id at its initialization;
\* no endpoint is constructed and neither table changes, whatever the body.
C6_KnownIdForwarded ==
    [][ \A s \in Uuids, b \in Bodies, a \in BOOLEAN :
          (s \in DOMAIN streamable /\ PostMcp(s, b, a)) =>
              /\ lastResp'.by = "endpoint"
              /\ lastResp'.to \in 1..Len(ep)
              /\ ep[lastResp'.to].kind = "streamable"
              /\ ep[lastResp'.to].sessionId = s
              /\ UNCHANGED << ep, streamable, sse >> ]_vars

\* C6 witness: with two sessions registered, a POST carrying the id of one
\* was handed to the endpoint registered under it.
C6_Witness ==
    /\ Cardinality(DOMAIN streamable) >= 2
    /\ lastResp.route = "POST /mcp"
    /\ lastResp.sid \in DOMAIN streamable
    /\ lastResp.to = streamable[lastResp.sid]
    /\ ep[lastResp.to].sessionId = lastResp.sid

\* C7: GET /sse registers the new endpoint under its fresh id in the legacy
\* table in the same step; a POST /messages with that id is handed to that
\* endpoint as long as its stream is open, and gets 400 "No transport found
\* for sessionId" once the stream has closed.
C7_LegacyFlow ==
    [][ /\ SseGet =>
              LET t == Len(ep')
              IN  /\ t = Len(ep) + 1
                  /\ ep'[t].kind = "sse"
                  /\ ep'[t].sessionId \in Uuids \ issued
                  /\ Get(sse', ep'[t].sessionId) = t
        /\ \A t \in 1..Len(ep), b \in Bodies, a \in BOOLEAN :
              (ep[t].kind = "sse" /\ PostMessages(ep[t].sessionId, b, a)) =>
                  IF ~ep[t].closed
                  THEN lastResp'.by = "endpoint" /\ lastResp'.to = t
                  ELSE lastResp' = NoTransportFound("POST /messages", ep[t].sessionId) ]_vars

\* C7 witness: a legacy endpoint that took a message while its stream was
\* open, and whose id is refused now that the stream has closed.
C7_Witness ==
    \E t \in 1..Len(ep) :
        /\ ep[t].kind = "sse"
        /\ ep[t].initialized
        /\ ep[t].closed
        /\ lastResp = NoTransportFound("POST /messages", ep[t].sessionId)

RemovedOnlyOnClose(old, new) ==
    \A k \in DOMAIN old :
        IF k \in DOMAIN new THEN new[k] = old[k]
        ELSE ~ep[old[k]].closed /\ ep'[old[k]].closed

\* A request whose session id is not a key of the table its route reads.
LookupMiss ==
    \E s \in SessionIdInputs, b \in Bodies, a \in BOOLEAN :
        \/ PostMcpInvalid(s, b)
        \/ s \notin DOMAIN streamable /\ (PostMcpReuse(s, b, a) \/ GetMcp(s, a) \/ DeleteMcp(s, a))
        \/ s \notin DOMAIN sse /\ PostMessages(s, b, a)

\* C9 (as claimed): in both tables an entry is inserted only for an endpoint
\* whose initialization handshake has completed, an entry is removed only
\* when its endpoint is closed, and a lookup miss changes neither table.
C9_InsertOnlyAfterHandshake ==
    [][ /\ \A k \in (DOMAIN streamable') \ DOMAIN streamable : ep'[streamable'[k]].initialized
        /\ \A k \in (DOMAIN sse') \ DOMAIN sse : ep'[sse'[k]].initialized
        /\ RemovedOnlyOnClose(streamable, streamable')
        /\ RemovedOnlyOnClose(sse, sse')
        /\ UNCHANGED << streamable, sse >> \/ ~LookupMiss ]_vars

\* C9 (amended): the bidirectional table gains an entry only in the step in
\* which a new endpoint accepts its initialize request, under the id drawn
\* in that step; the legacy table gains an entry only when GET /sse
\* constructs the endpoint, before any handshake; an entry of either table
\* is removed only when the endpoint it names is closed; a lookup miss
\* changes neither table.
C9_InsertAndRemove ==
    [][ /\ \A k \in (DOMAIN streamable') \ DOMAIN streamable :
              LET t == streamable'[k]
              IN  /\ t = Len(ep) + 1
                  /\ ep'[t].kind = "streamable"
                  /\ ep'[t].initialized
                  /\ ep'[t].sessionId = k
                  /\ lastResp'.route = "POST /mcp"
                  /\ lastResp'.to = t
        /\ \A k \in (DOMAIN sse') \ DOMAIN sse :
              LET t == sse'[k]
              IN  /\ t = Len(ep) + 1
                  /\ ep'[t].kind = "sse"
                  /\ ~ep'[t].initialized
                  /\ ep'[t].sessionId = k
                  /\ lastResp'.route = "GET /sse"
        /\ RemovedOnlyOnClose(streamable, streamable')
        /\ RemovedOnlyOnClose(sse, sse')
        /\ UNCHANGED << streamable, sse >> \/ ~LookupMiss ]_vars

\* C9 witness: a legacy entry registered with no handshake, next to a
\* bidirectional session that was registered and then removed by its closure.
C9_Witness ==
    /\ \E k \in DOMAIN sse : ~ep[sse[k]].initialized
    /\ \E t \in 1..Len(ep) :
          /\ ep[t].kind = "streamable"
          /\ ep[t].initialized
          /\ ep[t].closed
          /\ ep[t].sessionId \notin DOMAIN streamable

\* C10: an id that is a key of the legacy table only is rejected by POST,
\* GET and DELETE /mcp; an id that is a key of the bidirectional table only
\* is rejected by POST /messages; a DELETE /mcp never changes the legacy
\* table and the closing of a legacy stream never changes the bidirectional
\* table.
C10_TablesNotCrossMatched ==
    [][ /\ \A s \in (DOMAIN sse) \ DOMAIN streamable, b \in Bodies, a \in BOOLEAN :
              /\ PostMcp(s, b, a) => lastResp' = BadRequestEnvelope("POST /mcp", s)
              /\ GetMcp(s, a) => lastResp' = InvalidSession("GET /mcp", s)
              /\ DeleteMcp(s, a) => lastResp' = InvalidSession("DELETE /mcp", s)
        /\ \A s \in (DOMAIN streamable) \ DOMAIN sse, b \in Bodies, a \in BOOLEAN :
              PostMessages(s, b, a) => lastResp' = NoTransportFound("POST /messages", s)
        /\ sse' # sse => \A s \in SessionIdInputs, a \in BOOLEAN : ~DeleteMcp(s, a)
        /\ streamable' # streamable => \A t \in 1..Len(ep) : ~SseClose(t) ]_vars

\* C10 witness: with a session live in each table, the id of the
\* bidirectional one was refused by POST /messages.
C10_Witness ==
    /\ DOMAIN sse # {}
    /\ lastResp.sid \in (DOMAIN streamable) \ DOMAIN sse
    /\ lastResp = NoTransportFound("POST /messages", lastResp.sid)

\* The session of endpoint t is over: the endpoint is closed, or its
\* client's connection has ended.
Terminated(t) == t \in 1..Len(ep) /\ (ep[t].closed \/ ep[t].gone)

\* Endpoint t is the value of an entry of a session table.
Registered(t) ==
    \/ \E k \in DOMAIN streamable : streamable[k] = t
    \/ \E k \in DOMAIN sse : sse[k] = t

\* C11 (as claimed): every registered session whose endpoint is closed by a
\* DELETE, or whose client's connection has ended, is eventually out of its
\* table; no entry stays there forever after that.
C11_EventuallyRemoved ==
    \A t \in 1..MaxEndpoints : Terminated(t) ~> ~Registered(t)

\* C12: the step that closes an endpoint removes exactly the entry of its
\* own id from its own table, once; a close signal delivered again, when
\* that entry is gone, changes neither table, leaves the endpoint closed and
\* produces no error.
C12_CleanupExactlyOnce ==
    [][ \A t \in 1..Len(ep) :
          /\ (~ep[t].closed /\ ep'[t].closed) =>
                LET k == ep[t].sessionId
                IN  IF ep[t].kind = "streamable"
                    THEN /\ k \in DOMAIN streamable
                         /\ streamable[k] = t
                         /\ streamable' = [ j \in (DOMAIN streamable) \ {k} |-> streamable[j] ]
                         /\ sse' = sse
                    ELSE /\ k \in DOMAIN sse
                         /\ sse[k] = t
                         /\ sse' = [ j \in (DOMAIN sse) \ {k} |-> sse[j] ]
                         /\ streamable' = streamable
          /\ OncloseAgain(t) =>
                /\ ep'[t].closed
                /\ UNCHANGED << streamable, sse, lastResp >> ]_vars

\* C12 witness: an endpoint has received a second close signal while
\* another session is registered.
C12_Witness ==
    \E t \in 1..Len(ep) :
        /\ ep[t].closed
        /\ ep[t].closes >= 2
        /\ ep[t].sessionId \notin DOMAIN streamable
        /\ DOMAIN streamable # {}

\* C13 (as claimed): of two POST /mcp requests carrying the id of the same
\* registered session, the one that arrived first is handed to the
\* session's endpoint first: no request is dispatched while an earlier
\* arrival with the same session id is still waiting.
C13_ArrivalOrder ==
    [][ \A i \in 1..Len(inbox), a \in BOOLEAN :
          (inbox[i].sid \in DOMAIN streamable /\ DispatchAt(i, a)) =>
              \A j \in 1..(i - 1) : inbox[j].sid # inbox[i].sid ]_vars

\* C14 (as claimed): the step that closes one endpoint leaves every other
\* endpoint as it was: its table entry stays, and if the engine's responses
\* left through it before the step they still do after it.
C14_ClosureIsolated ==
    [][ \A t \in 1..Len(ep) :
          (~ep[t].closed /\ ep'[t].closed) =>
              \A u \in (1..Len(ep)) \ {t} :
                  /\ \A k \in DOMAIN streamable :
                        streamable[k] = u => (k \in DOMAIN streamable' /\ streamable'[k] = u)
                  /\ \A k \in DOMAIN sse :
                        sse[k] = u => (k \in DOMAIN sse' /\ sse'[k] = u)
                  /\ engine = u => engine' = u ]_vars

\* The stdio endpoint was constructed and its connect failed.
StdioFailed == \E t \in 1..Len(ep) : ep[t].kind = "stdio" /\ ~ep[t].connected

\* C15: when the stdio endpoint's connect fails, the failure is logged, and
\* if MODE enables HTTP main() goes on to start the listener.
C15_StdioFailureNotFatal ==
    /\ [](StdioFailed => StdioFailedLine \in console)
    /\ (StdioFailed /\ enableHttpServer(mode)) ~> (pc = "serving")

\* C15 witness: after a failed stdio connect the listener runs and has
\* answered a request on one of its routes.
C15_Witness ==
    /\ StdioFailed
    /\ StdioFailedLine \in console
    /\ pc = "serving"
    /\ HttpRunningLine \in console
    /\ lastResp.route \in { "POST /mcp", "GET /mcp", "DELETE /mcp", "GET /sse", "POST /messages" }

\* The stdio endpoint has been constructed and handed to server.connect.
StdioWired == \E t \in 1..Len(ep) : ep[t].kind = "stdio"

\* C16: the stdio endpoint is wired exactly when MODE is unset, 'both' or
\* 'stdio', and it is wired before main() reaches the listener; the
\* listener is started only when MODE is unset, 'both' or 'http'; main()
\* ends without a listener only when MODE is 'stdio', and then no HTTP
\* endpoint ever exists.
C16_ModeSelectsTransports ==
    /\ StdioWired <=> (pc # "start" /\ mode \in { Undefined, "both", "stdio" })
    /\ pc = "serving" => mode \in { Undefined, "both", "http" }
    /\ pc = "idle" => mode = "stdio"
    /\ mode = "stdio" => \A t \in 1..Len(ep) : ep[t].kind = "stdio"
    /\ pc # "serving" => (streamable = EmptyTable /\ sse = EmptyTable)

\* C16 witness: with MODE 'both' the listener is serving next to the stdio
\* endpoint, which was wired first.
C16_Witness ==
    /\ mode = "both"
    /\ pc = "serving"
    /\ Len(ep) >= 2
    /\ ep[1].kind = "stdio"
    /\ ep[2].kind # "stdio"

\* C17 (as claimed): an insertion under a key that is already in a table
\* does not replace the entry: a key present before and after a step names
\* the same endpoint.
C17_DuplicateInsertRejected ==
    [][ /\ \A k \in (DOMAIN streamable) \cap (DOMAIN streamable') : streamable'[k] = streamable[k]
        /\ \A k \in (DOMAIN sse) \cap (DOMAIN sse') : sse'[k] = sse[k] ]_vars

\* C18: every entry of either table maps its key to an endpoint of the
\* table's own kind whose session id is that key and which is not closed.
C18_EntriesLiveAndOwnKey ==
    /\ \A k \in DOMAIN streamable :
          /\ IsEndpoint(streamable[k])
          /\ ep[streamable[k]].kind = "streamable"
          /\ ep[streamable[k]].sessionId = k
          /\ ~ep[streamable[k]].closed
    /\ \A k \in DOMAIN sse :
          /\ IsEndpoint(sse[k])
          /\ ep[sse[k]].kind = "sse"
          /\ ep[sse[k]].sessionId = k
          /\ ~ep[sse[k]].closed

\* C18 witness: one endpoint has been closed and its key is gone while
\* another session is still registered.
C18_Witness ==
    /\ \E t \in 1..Len(ep) :
          /\ ep[t].closed
          /\ ep[t].sessionId \notin (DOMAIN streamable) \cup (DOMAIN sse)
    /\ (DOMAIN streamable) \cup (DOMAIN sse) # {}

\* C19 (as claimed): every bidirectional endpoint that has been connected
\* to the engine is registered in the bidirectional table or closed.
C19_ConnectedIsRegisteredOrClosed ==
    \A t \in 1..Len(ep) :
        (ep[t].kind = "streamable" /\ ep[t].connected) =>
            \/ ep[t].closed
            \/ \E k \in DOMAIN streamable : streamable[k] = t

\* C20: once config.ts has been evaluated, whatever DEFAULT_SEARCH_ENGINE
\* and ALLOWED_SEARCH_ENGINES held, defaultSearchEngine is a valid engine,
\* allowedSearchEngines holds valid engines only, and a non-empty
\* allowedSearchEngines contains defaultSearchEngine.
C20_ConfigValid ==
    config.loaded =>
        /\ includes(validSearchEngines, config.defaultSearchEngine)
        /\ \A i \in 1..Len(config.allowedSearchEngines) :
              includes(validSearchEngines, config.allowedSearchEngines[i])
        /\ config.allowedSearchEngines # << >> =>
              includes(config.allowedSearchEngines, config.defaultSearchEngine)

\* C20 witness: a valid default outside an allowed list that also names an
\* invalid engine: the list was filtered and the default replaced by its
\* first entry.
C20_Witness ==
    /\ config.loaded
    /\ env.DEFAULT_SEARCH_ENGINE = EnvString(Name("bing"))
    /\ env.ALLOWED_SEARCH_ENGINES = EnvString(<< "google", Comma, "brave" >>)
    /\ config.allowedSearchEngines = << Name("brave") >>
    /\ config.defaultSearchEngine = Name("brave")

====
